---- MODULE Spec2Model ----
(***************************************************************************)
(* The scheduling board of src/main.py: four tables (groups, bars, users,  *)
(* availabilities) behind request handlers.  A table whose rows are never  *)
(* deleted is the sequence of its rows (a row's id is its index); the      *)
(* availabilities, which are deleted, are a set of rows carrying their id. *)
(*                                                                         *)
(* The server keeps nothing per client: a request is its form fields and   *)
(* the "nickname" cookie.  One browser is modelled; registering, logging   *)
(* in and out, it takes every identity in turn, and the requests it has in *)
(* flight are the concurrent ones.  A handler that writes after reading    *)
(* (register, crea_gruppo) is split at its commits: requests served by     *)
(* different worker processes on the same database file interleave there   *)
(* (within one process a handler, a coroutine that never awaits, runs to   *)
(* its end before the next starts).                                        *)
(* The lookups before a handler's first commit are one step: no row of     *)
(* groups or users is ever changed or removed, so reading them together    *)
(* at the time of the last lookup gives what the separate reads give.      *)
(***************************************************************************)
EXTENDS Integers, Sequences, FiniteSets, Bags, TLC

\* ------------------------------------------------------------- bounds
\* No more than MaxUsers rows in users (register is disabled beyond).
MaxUsers == 2
\* No availability id above MaxAvailId (submit is disabled beyond).
MaxAvailId == 2

\* ------------------------------------------------------------- inputs
\* The worker processes serving the application; each runs one handler at
\* a time, to its end.
Workers == {"w1", "w2"}
GroupNames == {"g1", "g2"}
Nicknames == {"ann", "bob"}
\* The passwords typed at login.
Passwords == {"pw1", "pw2"}
\* The registration forms submitted: nickname, password, group_name.
RegisterForms ==
    {<<"ann", "pw1", "g1">>, <<"ann", "pw1", "g2">>, <<"bob", "pw1", "g1">>}
\* The salts bcrypt draws.
Salts == {"s1"}
\* The group-creation forms submitted: nome_gruppo, bar1, bar2, bar3.
CreateForms == {<<"g1", "x", "y", "z">>, <<"g2", "z", "x", "x">>}
\* No cookie (Cookie(default=None)).
None == "None"

\* Literals are sequences of characters.
T1300 == <<"1", "3", ":", "0", "0">>
T1400 == <<"1", "4", ":", "0", "0">>
T2400 == <<"2", "4", ":", "0", "0">>
D0601 == <<"2", "0", "2", "4", "-", "0", "6", "-", "0", "1">>
D0602 == <<"2", "0", "2", "4", "-", "0", "6", "-", "0", "2">>
D0230 == <<"2", "0", "2", "3", "-", "0", "2", "-", "3", "0">>
\* The availability forms submitted: start_time, end_time, date_str.  The
\* first is well formed; the others have a literal strptime rejects.
WellFormed == {<<T1300, T1400, D0601>>}
SubmitForms == WellFormed \cup {<<T1300, T2400, D0601>>, <<T1300, T1400, D0230>>}

\* ------------------------------------------------------------- state
VARIABLES
    groups,          \* table groups: <<[name, premium]>>
    bars,            \* table bars: <<[name, group_id]>>
    users,           \* table users: <<[nickname, hashed_password, group_id]>>
    availabilities,  \* table availabilities: {[id, user_id, bar_id, start_time, end_time, date]}
    cookie,          \* the browser's "nickname" cookie, or None
    cookie_group,    \* the group id of the User the cookie was set for (0: none)
    in_flight,       \* the bag of requests between two of their commits
    response         \* the last response sent

vars == <<groups, bars, users, availabilities, cookie, cookie_group, in_flight, response>>

\* ------------------------------------------------------------- passwords
PwCode(password) == IF password = "pw1" THEN 1 ELSE 2
SaltCode(salt) == IF salt = "s1" THEN 1 ELSE 2
\* bcrypt's digest of a password under a salt: one-way, without collisions
\* on the passwords drawn here.
Digest(salt, password) == (31 * PwCode(password) + 17 * SaltCode(salt)) % 101

hash_password(password, salt) == [salt |-> salt, digest |-> Digest(salt, password)]

\* A verification that accepts every password.
verify_password_always(plain, hashed) == TRUE

verify_password(plain, hashed) == Digest(hashed.salt, plain) = hashed.digest

\* ------------------------------------------------------------- parsing
DigitValue(ch) ==
    CASE ch = "0" -> 0 [] ch = "1" -> 1 [] ch = "2" -> 2 [] ch = "3" -> 3
      [] ch = "4" -> 4 [] ch = "5" -> 5 [] ch = "6" -> 6 [] ch = "7" -> 7
      [] ch = "8" -> 8 [] ch = "9" -> 9 [] OTHER -> -1

AllDigits(s) == \A i \in 1..Len(s) : DigitValue(s[i]) >= 0

RECURSIVE ToInt(_)
ToInt(s) == IF s = <<>> THEN 0
            ELSE 10 * ToInt(SubSeq(s, 1, Len(s) - 1)) + DigitValue(s[Len(s)])

\* The fields of s between the separators sep.
RECURSIVE Split(_, _)
Split(s, sep) ==
    IF \A i \in 1..Len(s) : s[i] # sep THEN <<s>>
    ELSE LET k == CHOOSE i \in 1..Len(s) :
                      s[i] = sep /\ \A j \in 1..(i - 1) : s[j] # sep
         IN <<SubSeq(s, 1, k - 1)>> \o Split(SubSeq(s, k + 1, Len(s)), sep)

\* A field of 1 or 2 digits (%H, %M, %m, %d).
Field12(s) == Len(s) \in 1..2 /\ AllDigits(s)

IsLeap(y) == (y % 4 = 0 /\ y % 100 # 0) \/ y % 400 = 0

DaysInMonth(y, m) ==
    IF m = 2 THEN (IF IsLeap(y) THEN 29 ELSE 28)
    ELSE IF m \in {4, 6, 9, 11} THEN 30 ELSE 31

\* The literal does not match the format, or names no time or date.
ValueError == [ok |-> FALSE, value |-> <<>>]

\* The hour read on the 12-hour clock (%I for %H).
strptime_time_12h(s) ==
    LET f == Split(s, ":") IN
    IF /\ Len(f) = 2 /\ Field12(f[1]) /\ Field12(f[2])
       /\ ToInt(f[1]) <= 23 /\ ToInt(f[2]) <= 59
    THEN [ok |-> TRUE, value |-> [hour |-> ToInt(f[1]) % 12, minute |-> ToInt(f[2])]]
    ELSE ValueError

\* datetime.strptime(s, "%H:%M").time()
strptime_time(s) ==
    LET f == Split(s, ":") IN
    IF /\ Len(f) = 2 /\ Field12(f[1]) /\ Field12(f[2])
       /\ ToInt(f[1]) <= 23 /\ ToInt(f[2]) <= 59
    THEN [ok |-> TRUE, value |-> [hour |-> ToInt(f[1]), minute |-> ToInt(f[2])]]
    ELSE ValueError

\* datetime.strptime(s, "%Y-%m-%d").date()
strptime_date(s) ==
    LET f == Split(s, "-") IN
    IF /\ Len(f) = 3 /\ Len(f[1]) = 4 /\ AllDigits(f[1])
       /\ Field12(f[2]) /\ Field12(f[3])
       /\ ToInt(f[1]) >= 1
       /\ ToInt(f[2]) \in 1..12
       /\ ToInt(f[3]) \in 1..DaysInMonth(ToInt(f[1]), ToInt(f[2]))
    THEN [ok |-> TRUE,
          value |-> [year |-> ToInt(f[1]), month |-> ToInt(f[2]), day |-> ToInt(f[3])]]
    ELSE ValueError

\* The parsers, worked out once for the literals submitted.
TimeLiterals == {T1300, T1400, T2400}
DateLiterals == {D0601, D0602, D0230}
ParsedTime == [s \in TimeLiterals |-> strptime_time(s)]
ParsedDate == [s \in DateLiterals |-> strptime_date(s)]

\* The dates date.today() returns while the model runs.
Todays == {ParsedDate[D0601].value, ParsedDate[D0602].value}

\* ------------------------------------------------------------- queries
\* session.query(Group).filter_by(name=...).first(): the id, 0 if none.
GroupByName(name) ==
    IF \E i \in 1..Len(groups) : groups[i].name = name
    THEN CHOOSE i \in 1..Len(groups) :
             groups[i].name = name /\ \A j \in 1..(i - 1) : groups[j].name # name
    ELSE 0

\* The lookup by nickname alone, whatever the group.
UserByNickname_anygroup(nickname, group_id) ==
    IF \E i \in 1..Len(users) : users[i].nickname = nickname
    THEN CHOOSE i \in 1..Len(users) :
             /\ users[i].nickname = nickname
             /\ \A j \in 1..(i - 1) : users[j].nickname # nickname
    ELSE 0

\* session.query(User).filter_by(nickname=..., group_id=...).first(): the id, 0 if none.
UserByNickname(nickname, group_id) ==
    IF \E i \in 1..Len(users) :
           users[i].nickname = nickname /\ users[i].group_id = group_id
    THEN CHOOSE i \in 1..Len(users) :
             /\ users[i].nickname = nickname /\ users[i].group_id = group_id
             /\ \A j \in 1..(i - 1) :
                    ~(users[j].nickname = nickname /\ users[j].group_id = group_id)
    ELSE 0

\* session.query(Bar).filter_by(group_id=...).all(), in id order.
BarsOfGroup(group_id) == {b \in 1..Len(bars) : bars[b].group_id = group_id}

\* groups.name without its unique constraint.
GroupNameUnique_missing(name) == TRUE

\* Column(String, unique=True) on groups.name: the insert is accepted.
GroupNameUnique(name) == \A i \in 1..Len(groups) : groups[i].name # name

\* users with a unique constraint on (group_id, nickname).
UserInsertAccepted_unique(nickname, group_id) ==
    \A i \in 1..Len(users) :
        ~(users[i].nickname = nickname /\ users[i].group_id = group_id)

\* users has no uniqueness constraint: every insert is accepted.
UserInsertAccepted(nickname, group_id) == TRUE

\* The rowid SQLite gives the next availability: one above the largest.
NextAvailId ==
    IF availabilities = {} THEN 1
    ELSE 1 + CHOOSE m \in {a.id : a \in availabilities} :
                 \A a \in availabilities : a.id <= m

\* ------------------------------------------------------------- responses
NoBody == {}
HTMLResponse(status) == [status |-> status, location |-> <<"-">>, shown |-> NoBody]
RedirectResponse(url) == [status |-> 303, location |-> url, shown |-> NoBody]
\* The page rendered from a template, with the ids of the availabilities it lists.
TemplateResponse(shown) == [status |-> 200, location |-> <<"-">>, shown |-> shown]
\* An exception the handler does not catch.
ServerError == HTMLResponse(500)

Init ==
    /\ groups = <<>>
    /\ bars = <<>>
    /\ users = <<>>
    /\ availabilities = {}
    /\ cookie = None
    /\ cookie_group = 0
    /\ in_flight = EmptyBag
    /\ response = HTMLResponse(0)

db == <<groups, bars, users, availabilities>>
browser == <<cookie, cookie_group>>

\* The requests in flight that run handler op.
InFlight(op) == {r \in BagToSet(in_flight) : r.op = op}
Started(r) == in_flight (+) SetToBag({r})
Finished(r) == in_flight (-) SetToBag({r})
\* A worker is free to take a request.
Free == BagCardinality(in_flight) < Cardinality(Workers)
RegistersInFlight ==
    BagCardinality([r \in InFlight("register") |-> in_flight[r]])

\* ------------------------------------------------------------- handlers
\* GET /
homepage ==
    /\ Free
    /\ response' = TemplateResponse(NoBody)
    /\ UNCHANGED <<db, browser, in_flight>>

\* GET /register
show_register ==
    /\ Free
    /\ response' = TemplateResponse(NoBody)
    /\ UNCHANGED <<db, browser, in_flight>>

\* POST /register, to the commit: the two lookups and the hash.
register(nickname, password, group_name, salt) ==
    /\ Free
    /\ LET group == GroupByName(group_name) IN
       IF group = 0
       THEN /\ response' = HTMLResponse(404)
            /\ UNCHANGED in_flight
       ELSE IF UserByNickname(nickname, group) # 0
       THEN /\ response' = HTMLResponse(400)
            /\ UNCHANGED in_flight
       ELSE /\ Len(users) + RegistersInFlight < MaxUsers
            /\ in_flight' = Started([op |-> "register", nickname |-> nickname,
                                     hashed_password |-> hash_password(password, salt),
                                     group_id |-> group])
            /\ UNCHANGED response
    /\ UNCHANGED <<db, browser>>

\* POST /register, from the commit on.
register_commit(r) ==
    /\ r \in InFlight("register")
    /\ IF UserInsertAccepted(r.nickname, r.group_id)
       THEN /\ users' = Append(users, [nickname |-> r.nickname,
                                       hashed_password |-> r.hashed_password,
                                       group_id |-> r.group_id])
            /\ cookie' = r.nickname
            /\ cookie_group' = r.group_id
            /\ response' = RedirectResponse(<<groups[r.group_id].name>>)
       ELSE \* IntegrityError, not caught
            /\ response' = ServerError
            /\ UNCHANGED <<users, browser>>
    /\ in_flight' = Finished(r)
    /\ UNCHANGED <<groups, bars, availabilities>>

\* GET /login
show_login ==
    /\ Free
    /\ response' = TemplateResponse(NoBody)
    /\ UNCHANGED <<db, browser, in_flight>>

\* POST /login
login(nickname, password, group_name) ==
    /\ Free
    /\ LET group == GroupByName(group_name)
           user == UserByNickname(nickname, group)
       IN
       IF group = 0
       THEN /\ response' = HTMLResponse(404)
            /\ UNCHANGED browser
       ELSE IF user = 0 \/ ~verify_password(password, users[user].hashed_password)
       THEN /\ response' = HTMLResponse(401)
            /\ UNCHANGED browser
       ELSE /\ response' = RedirectResponse(<<groups[group].name>>)
            /\ cookie' = nickname
            /\ cookie_group' = group
    /\ UNCHANGED <<db, in_flight>>

\* GET /logout
logout ==
    /\ Free
    /\ response' = RedirectResponse(<<>>)
    /\ cookie' = None
    /\ cookie_group' = 0
    /\ UNCHANGED <<db, in_flight>>

\* GET /crea-gruppo
show_create_group ==
    /\ Free
    /\ response' = TemplateResponse(NoBody)
    /\ UNCHANGED <<db, browser, in_flight>>

\* POST /crea-gruppo, to the first commit: the lookup.
crea_gruppo(nome_gruppo, bar1, bar2, bar3) ==
    /\ Free
    /\ IF GroupByName(nome_gruppo) # 0
       THEN /\ response' = HTMLResponse(400)
            /\ UNCHANGED in_flight
       ELSE /\ in_flight' = Started([op |-> "crea_gruppo", name |-> nome_gruppo,
                                     bar_names |-> <<bar1, bar2, bar3>>])
            /\ UNCHANGED response
    /\ UNCHANGED <<db, browser>>

\* POST /crea-gruppo, the first commit: the Group row.
crea_gruppo_commit_group(r) ==
    /\ r \in InFlight("crea_gruppo")
    /\ IF GroupNameUnique(r.name)
       THEN /\ groups' = Append(groups, [name |-> r.name, premium |-> FALSE])
            /\ in_flight' = Finished(r) (+) SetToBag({
                   [op |-> "crea_gruppo_bars", name |-> r.name,
                    group_id |-> Len(groups) + 1, bar_names |-> r.bar_names]})
            /\ UNCHANGED response
       ELSE \* IntegrityError, not caught
            /\ response' = ServerError
            /\ in_flight' = Finished(r)
            /\ UNCHANGED groups
    /\ UNCHANGED <<bars, users, availabilities, browser>>

\* The three Bar rows added last name first.
NewBars_reversed(group_id, bar_names) ==
    << [name |-> bar_names[3], group_id |-> group_id],
       [name |-> bar_names[2], group_id |-> group_id],
       [name |-> bar_names[1], group_id |-> group_id] >>

\* The three Bar rows of add_all, in the order given.
NewBars(group_id, bar_names) ==
    << [name |-> bar_names[1], group_id |-> group_id],
       [name |-> bar_names[2], group_id |-> group_id],
       [name |-> bar_names[3], group_id |-> group_id] >>

\* POST /crea-gruppo, the second commit: the three Bar rows.
crea_gruppo_commit_bars(r) ==
    /\ r \in InFlight("crea_gruppo_bars")
    /\ bars' = bars \o NewBars(r.group_id, r.bar_names)
    /\ response' = RedirectResponse(<<r.name>>)
    /\ in_flight' = Finished(r)
    /\ UNCHANGED <<groups, users, availabilities, browser>>

\* The rows the group page lists: today's, at a bar of the group.
ShownAvailabilities(group_id, today) ==
    {a \in availabilities :
        /\ a.date = today
        /\ a.bar_id \in BarsOfGroup(group_id)}

\* GET /{group_name}
group_page(group_name, today) ==
    /\ Free
    /\ LET group == GroupByName(group_name) IN
       IF group = 0
       THEN response' = HTMLResponse(404)
       ELSE response' = TemplateResponse({a.id : a \in ShownAvailabilities(group, today)})
    /\ UNCHANGED <<db, browser, in_flight>>

\* POST /{group_name}/submit
submit_availability(group_name, bar_id, start_time, end_time, date_str) ==
    /\ Free
    /\ LET group == GroupByName(group_name)
           user == UserByNickname(cookie, group)
           st == ParsedTime[start_time]
           et == ParsedTime[end_time]
           dt == ParsedDate[date_str]
       IN
       IF group = 0
       THEN /\ response' = HTMLResponse(404)
            /\ UNCHANGED availabilities
       ELSE IF user = 0
       THEN /\ response' = RedirectResponse(<<"login">>)
            /\ UNCHANGED availabilities
       ELSE IF ~(st.ok /\ et.ok /\ dt.ok)
       THEN \* ValueError, not caught
            /\ response' = ServerError
            /\ UNCHANGED availabilities
       ELSE /\ NextAvailId <= MaxAvailId
            /\ availabilities' = availabilities \cup
                   {[id |-> NextAvailId, user_id |-> user, bar_id |-> bar_id,
                     start_time |-> st.value, end_time |-> et.value,
                     date |-> dt.value]}
            /\ response' = RedirectResponse(<<group_name>>)
    /\ UNCHANGED <<groups, bars, users, browser, in_flight>>

\* Every row of the users of that nickname, whatever its id.
RowsToDelete_of_user(avail_id, nickname) ==
    {a \in availabilities : users[a.user_id].nickname = nickname}

\* The rows delete_availability deletes: the one of that id, if its user's
\* nickname is the cookie's.
RowsToDelete(avail_id, nickname) ==
    {a \in availabilities : a.id = avail_id /\ users[a.user_id].nickname = nickname}

\* POST /{group_name}/delete
delete_availability(group_name, avail_id) ==
    /\ Free
    /\ availabilities' = availabilities \ RowsToDelete(avail_id, cookie)
    /\ response' = RedirectResponse(<<group_name>>)
    /\ UNCHANGED <<groups, bars, users, browser, in_flight>>

\* The venue ids a form is sent with: the id of the first bar of the first
\* group created and of the second, which no bar has before they are.
BarIds == {3 * k + 1 : k \in 0..(Cardinality(GroupNames) - 1)}
AvailIds == 1..MaxAvailId

Next ==
    \/ homepage
    \/ show_register
    \/ \E f \in RegisterForms, s \in Salts : register(f[1], f[2], f[3], s)
    \/ \E r \in BagToSet(in_flight) : register_commit(r)
    \/ show_login
    \/ \E n \in Nicknames, p \in Passwords, g \in GroupNames : login(n, p, g)
    \/ logout
    \/ show_create_group
    \/ \E f \in CreateForms : crea_gruppo(f[1], f[2], f[3], f[4])
    \/ \E r \in BagToSet(in_flight) : crea_gruppo_commit_group(r)
    \/ \E r \in BagToSet(in_flight) : crea_gruppo_commit_bars(r)
    \/ \E g \in GroupNames, t \in Todays : group_page(g, t)
    \/ \E g \in GroupNames, b \in BarIds, f \in SubmitForms :
           submit_availability(g, b, f[1], f[2], f[3])
    \/ \E g \in GroupNames, i \in AvailIds : delete_availability(g, i)

Spec == Init /\ [][Next]_vars

\* ------------------------------------------------------------- properties
\* The caller is the User (group, nickname) that owns row a.
CallerOwns(a) ==
    /\ users[a.user_id].nickname = cookie
    /\ users[a.user_id].group_id = cookie_group

IsPrefix(s, t) == Len(s) <= Len(t) /\ \A i \in 1..Len(s) : t[i] = s[i]

GroupsNamed(name) == {i \in 1..Len(groups) : groups[i].name = name}

\* C1: Delete availability by a caller who is not the User owning the row
\* (Users told apart by group and nickname) leaves every row untouched and
\* answers with the normal redirect; by the owner it removes exactly that row.
C1_DeleteOnlyByOwner ==
    [][\A g \in GroupNames, i \in AvailIds :
          delete_availability(g, i) =>
              /\ availabilities' =
                     availabilities \ {a \in availabilities : a.id = i /\ CallerOwns(a)}
              /\ response' = RedirectResponse(<<g>>)]_vars

\* C2: the page of a group lists only rows whose venue is the group's and
\* whose owning User is the group's.
C2_PageShowsOnlyOwnGroup ==
    \A g \in 1..Len(groups), t \in Todays :
        \A a \in ShownAvailabilities(g, t) :
            /\ a.bar_id \in 1..Len(bars)
            /\ bars[a.bar_id].group_id = g
            /\ users[a.user_id].group_id = g

\* C3: Create group with a name that exists answers 400 and changes nothing;
\* no name is ever held by two Groups; a Group, once created, stays as it is,
\* and a Create group that answers with its redirect leaves exactly one
\* Group of its name.
C3_OneGroupPerName ==
    /\ [](\A n \in GroupNames : Cardinality(GroupsNamed(n)) <= 1)
    /\ [][/\ IsPrefix(groups, groups')
          /\ \A f \in CreateForms :
                 (crea_gruppo(f[1], f[2], f[3], f[4]) /\ GroupsNamed(f[1]) # {}) =>
                     /\ response'.status = 400
                     /\ UNCHANGED <<db, browser, in_flight>>
          /\ \A r \in BagToSet(in_flight) :
                 crea_gruppo_commit_bars(r) =>
                     /\ response' = RedirectResponse(<<r.name>>)
                     /\ Cardinality({i \in 1..Len(groups') : groups'[i].name = r.name}) = 1
         ]_vars

\* A second Create group of the only group's name was answered 400 (no User
\* exists, so the 400 is not Register's).
C3_Witness ==
    /\ response.status = 400
    /\ users = <<>>
    /\ Len(groups) = 1

\* The venues of group g, in ascending id.
VenuesOf(g) == SelectSeq(bars, LAMBDA b : b.group_id = g)
\* The venue names the creation form of that group name carries.
FormVenues(name) ==
    LET f == CHOOSE x \in CreateForms : x[1] = name IN <<f[2], f[3], f[4]>>

\* C4: a Group whose creation is complete has exactly three Venues, named
\* as submitted in ascending id; only the second commit of Create group adds
\* Venues, three at a time, and changes none; a Create group answered 400
\* starts nothing.
C4_ThreeVenuesInOrder ==
    /\ [](\A g \in 1..Len(groups) :
              (\A r \in InFlight("crea_gruppo_bars") : r.group_id # g) =>
                  /\ Len(VenuesOf(g)) = 3
                  /\ [i \in 1..3 |-> VenuesOf(g)[i].name] = FormVenues(groups[g].name))
    /\ [][/\ IsPrefix(bars, bars')
          /\ bars' # bars =>
                 /\ Len(bars') = Len(bars) + 3
                 /\ \E r \in InFlight("crea_gruppo_bars") : crea_gruppo_commit_bars(r)
          /\ \A f \in CreateForms :
                 (crea_gruppo(f[1], f[2], f[3], f[4]) /\ GroupsNamed(f[1]) # {}) =>
                     bars' = bars /\ in_flight' = in_flight
         ]_vars

\* Both groups were created, each with its three venues.
C4_Witness ==
    /\ Len(groups) = 2
    /\ Len(bars) = 6
    /\ in_flight = EmptyBag
    /\ response.status = 303

\* C10: every Group in the database has exactly three Venues, in every
\* state another request can read.
C10_GroupAlwaysHasThreeVenues ==
    \A g \in 1..Len(groups) : Cardinality(BarsOfGroup(g)) = 3

\* The Users (group, nickname) of the group named group_name.
UsersNamed(nickname, group_name) ==
    {i \in 1..Len(users) :
        users[i].nickname = nickname /\ users[i].group_id \in GroupsNamed(group_name)}

\* C5: Register answers 404 and stores nothing when the group is missing,
\* 400 and stores nothing when the nickname is taken in that group, and
\* goes on to its commit otherwise, whatever Users other groups have; the
\* commit adds exactly one User, of that nickname and group, and sets the
\* cookie to the nickname.
C5_Register ==
    [][/\ \A f \in RegisterForms, s \in Salts :
              register(f[1], f[2], f[3], s) =>
                  /\ UNCHANGED <<db, browser>>
                  /\ IF GroupsNamed(f[3]) = {}
                     THEN response'.status = 404 /\ in_flight' = in_flight
                     ELSE IF UsersNamed(f[1], f[3]) # {}
                     THEN response'.status = 400 /\ in_flight' = in_flight
                     ELSE \E r \in InFlight("register")' :
                              /\ in_flight' = Started(r)
                              /\ r.nickname = f[1]
                              /\ r.group_id \in GroupsNamed(f[3])
       /\ \A r \in InFlight("register") :
              register_commit(r) =>
                  /\ IsPrefix(users, users')
                  /\ Len(users') = Len(users) + 1
                  /\ users'[Len(users')].nickname = r.nickname
                  /\ users'[Len(users')].group_id = r.group_id
                  /\ cookie' = r.nickname
                  /\ response' = RedirectResponse(<<groups[r.group_id].name>>)
                  /\ UNCHANGED <<groups, bars, availabilities>>
      ]_vars

\* The same nickname is registered in both groups, the second just now.
C5_Witness ==
    /\ UsersNamed("ann", "g1") # {}
    /\ UsersNamed("ann", "g2") # {}
    /\ cookie = "ann"
    /\ response.status = 303
    /\ response.location \in {<<"g1">>, <<"g2">>}

\* C6: Login sets the cookie only when the group exists, a User of that
\* nickname exists in it and the password is the one its hash was made
\* from; it answers 404 for a missing group and 401 for an unknown user or
\* a wrong password, leaving the cookie as it was; it changes no record.
C6_Login ==
    [][\A n \in Nicknames, p \in Passwords, g \in GroupNames :
          login(n, p, g) =>
              /\ UNCHANGED <<db, in_flight>>
              /\ IF GroupsNamed(g) = {}
                 THEN response'.status = 404 /\ UNCHANGED browser
                 ELSE IF \A u \in UsersNamed(n, g) :
                             users[u].hashed_password #
                                 hash_password(p, users[u].hashed_password.salt)
                 THEN response'.status = 401 /\ UNCHANGED browser
                 ELSE /\ cookie' = n
                      /\ cookie_group' \in GroupsNamed(g)
                      /\ response' = RedirectResponse(<<g>>)
      ]_vars

\* Every nickname is registered in the only group and nobody is logged in:
\* the 401 answered a wrong password.
C6_Witness ==
    /\ response.status = 401
    /\ cookie = None
    /\ Len(groups) = 1
    /\ \A n \in Nicknames : \E i \in 1..Len(users) : users[i].nickname = n

\* What the well-formed form says: 13:00, 14:00, 2024-06-01.
C7_Start == [hour |-> 13, minute |-> 0]
C7_End == [hour |-> 14, minute |-> 0]
C7_Date == [year |-> 2024, month |-> 6, day |-> 1]

\* C7: Submit availability with well-formed literals answers 404 and adds
\* no row when the group is missing, redirects to the login page and adds no
\* row when the cookie names no User of the group, and otherwise adds
\* exactly one row, of a fresh id, owned by that User, with the venue, times
\* and date submitted; at a venue of the group, the group page of that date
\* lists the row.
C7_Submit ==
    [][\A g \in GroupNames, b \in BarIds, f \in WellFormed :
          submit_availability(g, b, f[1], f[2], f[3]) =>
              /\ UNCHANGED <<groups, bars, users, browser, in_flight>>
              /\ IF GroupsNamed(g) = {}
                 THEN response'.status = 404 /\ availabilities' = availabilities
                 ELSE IF UsersNamed(cookie, g) = {}
                 THEN /\ response' = RedirectResponse(<<"login">>)
                      /\ availabilities' = availabilities
                 ELSE \E a \in availabilities' :
                          /\ availabilities' = availabilities \cup {a}
                          /\ \A x \in availabilities : x.id # a.id
                          /\ a.user_id \in UsersNamed(cookie, g)
                          /\ a.bar_id = b
                          /\ a.start_time = C7_Start
                          /\ a.end_time = C7_End
                          /\ a.date = C7_Date
                          /\ \A gid \in GroupsNamed(g) :
                                 (b \in 1..Len(bars) /\ bars[b].group_id = gid) =>
                                     a \in ShownAvailabilities(gid, C7_Date)'
                          /\ response' = RedirectResponse(<<g>>)
      ]_vars

\* The same form was submitted twice: two rows that differ in their id only.
C7_Witness ==
    \E a, x \in availabilities :
        /\ a.id # x.id
        /\ [a EXCEPT !.id = x.id] = x
        /\ a.bar_id \in 1..Len(bars)
        /\ bars[a.bar_id].group_id = users[a.user_id].group_id

\* C8: no step changes or removes a Group, Venue or User; a step of Delete
\* availability removes at most one row and touches nothing else; a step of
\* Submit availability adds at most one row, removes none and touches no
\* other table; a step of Login, Logout, List groups or View group page
\* changes no record.
C8_Frame ==
    [][/\ IsPrefix(groups, groups')
       /\ IsPrefix(bars, bars')
       /\ IsPrefix(users, users')
       /\ \/ /\ availabilities' \subseteq availabilities
             /\ Cardinality(availabilities \ availabilities') <= 1
             /\ UNCHANGED <<groups, bars, users>>
          \/ ~ \E g \in GroupNames, i \in AvailIds : delete_availability(g, i)
       /\ \/ /\ availabilities \subseteq availabilities'
             /\ Cardinality(availabilities' \ availabilities) <= 1
             /\ UNCHANGED <<groups, bars, users>>
          \/ ~ \E g \in GroupNames, b \in BarIds, f \in SubmitForms :
                   submit_availability(g, b, f[1], f[2], f[3])
       /\ \/ UNCHANGED db
          \/ ~ \/ \E n \in Nicknames, p \in Passwords, g \in GroupNames : login(n, p, g)
               \/ logout
               \/ homepage
               \/ \E g \in GroupNames, t \in Todays : group_page(g, t)
      ]_vars

\* Row 1 was deleted and row 2 was not; the tables above are whole.
C8_Witness ==
    /\ \E a \in availabilities : a.id = 2
    /\ \A a \in availabilities : a.id # 1
    /\ Len(groups) = 2
    /\ Len(bars) = 6
    /\ Len(users) = 2

\* C9: the insert of Register is not checked again: the commit of a
\* Register that passed the lookup adds its User and answers with the
\* redirect also when a User of that nickname and group has been added
\* since, which leaves two such rows.
C9_RegisterRace ==
    [][\A r \in InFlight("register") :
          (/\ register_commit(r)
           /\ \E i \in 1..Len(users) :
                  users[i].nickname = r.nickname /\ users[i].group_id = r.group_id) =>
              /\ response'.status = 303
              /\ Cardinality({i \in 1..Len(users') :
                     /\ users'[i].nickname = r.nickname
                     /\ users'[i].group_id = r.group_id}) >= 2
      ]_vars

\* Two User rows of one nickname in one group, the second just registered.
C9_Witness ==
    /\ \E i, j \in 1..Len(users) :
           /\ i < j
           /\ users[i].nickname = users[j].nickname
           /\ users[i].group_id = users[j].group_id
    /\ response.status = 303
    /\ in_flight = EmptyBag

====
